---- MODULE Spec2Model ----
(***************************************************************************)
(* Model of graphql/src/execution/ast.rs: SelectionSet, Field, Directive,  *)
(* ObjectTypeSet and resolve_object_types.                                 *)
(*                                                                         *)
(* A SelectionSet is the sequence `items` of pairs <<type name, fields>>.  *)
(* A Field is a record with the fields of the Rust struct; Option<String>  *)
(* is a sequence of length 0 (None) or 1 (Some).  A call that panics       *)
(* (`expect`) yields ok = FALSE together with the items as they were when  *)
(* the panic unwound.                                                      *)
(***************************************************************************)
EXTENDS Integers, Sequences, FiniteSets, TLC

VARIABLES
    plan, outcome, last,        \* the query builder and its SelectionSet
    directive, skipped,         \* a Directive and what skip() said of it, if asked
    type_set, narrowed,         \* an ObjectTypeSet and the last intersect on it
    schema, resolved            \* a Schema and the last resolve_object_types

selVars == <<plan, outcome, last>>
dirVars == <<directive, skipped>>
setVars == <<type_set, narrowed>>
resVars == <<schema, resolved>>
vars == <<selVars, dirVars, setVars, resVars>>

(***************************************************************************)
(* Bounds of the model                                                     *)
(***************************************************************************)
MaxFields == 3
MaxArgs == 2
MaxMembers == 2

TypeLists == {<<"Cat">>, <<"Cat", "Dog">>, <<"Cat", "Cat">>}
OtherTypeLists == {<<"Cat">>, <<"Cat", "Dog">>}

SeqsUpTo(S, n) == UNION {[1..k -> S] : k \in 0..n}

Min(S) == CHOOSE k \in S : \A j \in S : k <= j

(***************************************************************************)
(* Directive and Field values                                              *)
(***************************************************************************)
Directive(position, name, arguments) ==
    [position |-> position, name |-> name, arguments |-> arguments]

Field(position, alias, name, arguments, directives, selection_set) ==
    [position |-> position, alias |-> alias, name |-> name,
     arguments |-> arguments, directives |-> directives,
     selection_set |-> selection_set]

SkipTrue == Directive(10, "skip", << <<"if", "Boolean(true)">> >>)
IncludeFalse == Directive(11, "include", << <<"if", "Boolean(false)">> >>)

\* The fields a caller pushes, without their nested selection set.  The
\* third one has the response key of the first one through its alias.
NameField == Field(1, <<>>, "name", <<>>, <<>>, <<>>)
MeowField == Field(2, <<>>, "meow", <<>>, <<>>, <<>>)
AliasField ==
    Field(3, <<"name">>, "meow", << <<"first", "Int(1)">> >>, <<IncludeFalse>>, <<>>)
FieldHeaders == {NameField, MeowField, AliasField}

(***************************************************************************)
(* SelectionSet                                                            *)
(***************************************************************************)
RECURSIVE merge(_, _, _)
RECURSIVE merge_field(_, _)
RECURSIVE MergeItems(_, _, _, _)
RECURSIVE MergeFields(_, _, _, _)
RECURSIVE PushItems(_, _, _)
RECURSIVE PushFieldsFrom(_, _, _)
RECURSIVE Size(_)
RECURSIVE SumSeq(_)

new(types) == [i \in 1..Len(types) |-> <<types[i], <<>>>>]

empty_from(other) == [i \in 1..Len(other) |-> <<other[i][1], <<>>>>]

is_empty(self) == \A i \in 1..Len(self) : self[i][2] = <<>>

\* a slip: the alias is ignored
response_key_NameOnly(field) == field.name

response_key(field) == IF field.alias # <<>> THEN field.alias[1] ELSE field.name

prepend_directives(field, directives) ==
    [field EXCEPT !.directives = directives \o field.directives]

\* `.iter_mut().find(..)`: the index of the first match, 0 for None
FindItem(items, name) ==
    LET S == {i \in 1..Len(items) : items[i][1] = name}
    IN  IF S = {} THEN 0 ELSE Min(S)

FindField(fields, key) ==
    LET S == {k \in 1..Len(fields) : response_key(fields[k]) = key}
    IN  IF S = {} THEN 0 ELSE Min(S)

\* a slip: the new field goes to the front of the bucket
merge_field_Front(fields, new_field) ==
    LET k == FindField(fields, response_key(new_field))
    IN  IF k # 0
        THEN LET r == merge(fields[k].selection_set, new_field.selection_set, <<>>)
             IN  [ok |-> r.ok,
                  fields |-> [fields EXCEPT ![k].selection_set = r.items]]
        ELSE [ok |-> TRUE, fields |-> <<new_field>> \o fields]

\* a slip: no lookup of the response key, the field is always appended
merge_field_NoLookup(fields, new_field) ==
    [ok |-> TRUE, fields |-> Append(fields, new_field)]

\* a slip: the incoming field replaces the existing one and takes over its
\* merged selection set
merge_field_TakesIncoming(fields, new_field) ==
    LET k == FindField(fields, response_key(new_field))
    IN  IF k # 0
        THEN LET r == merge(fields[k].selection_set, new_field.selection_set, <<>>)
             IN  [ok |-> r.ok,
                  fields |-> [fields EXCEPT
                                ![k] = [new_field EXCEPT !.selection_set = r.items]]]
        ELSE [ok |-> TRUE, fields |-> Append(fields, new_field)]

merge_field(fields, new_field) ==
    LET k == FindField(fields, response_key(new_field))
    IN  IF k # 0
        THEN LET r == merge(fields[k].selection_set, new_field.selection_set, <<>>)
             IN  [ok |-> r.ok,
                  fields |-> [fields EXCEPT ![k].selection_set = r.items]]
        ELSE [ok |-> TRUE, fields |-> Append(fields, new_field)]

\* the inner loop of merge, from other_fields[j] on
MergeFields(fields, other_fields, directives, j) ==
    IF j > Len(other_fields)
    THEN [ok |-> TRUE, fields |-> fields]
    ELSE LET r == merge_field(fields,
                              prepend_directives(other_fields[j], directives))
         IN  IF r.ok
             THEN MergeFields(r.fields, other_fields, directives, j + 1)
             ELSE r

\* a slip: a type that self lacks gets a bucket of its own
MergeItems_AddsBucket(self, other, directives, i) ==
    IF i > Len(other)
    THEN [ok |-> TRUE, items |-> self]
    ELSE LET idx == FindItem(self, other[i][1])
             s1 == IF idx = 0 THEN Append(self, <<other[i][1], <<>>>>) ELSE self
             at == IF idx = 0 THEN Len(s1) ELSE idx
             r == MergeFields(s1[at][2], other[i][2], directives, 1)
             s2 == [s1 EXCEPT ![at] = <<s1[at][1], r.fields>>]
         IN  IF r.ok
             THEN MergeItems(s2, other, directives, i + 1)
             ELSE [ok |-> FALSE, items |-> s2]

\* a slip: a type that self lacks is skipped
MergeItems_SkipsUnknown(self, other, directives, i) ==
    IF i > Len(other)
    THEN [ok |-> TRUE, items |-> self]
    ELSE LET idx == FindItem(self, other[i][1])
         IN  IF idx = 0
             THEN MergeItems(self, other, directives, i + 1)
             ELSE LET r == MergeFields(self[idx][2], other[i][2], directives, 1)
                      s2 == [self EXCEPT ![idx] = <<self[idx][1], r.fields>>]
                  IN  IF r.ok
                      THEN MergeItems(s2, other, directives, i + 1)
                      ELSE [ok |-> FALSE, items |-> s2]

\* the outer loop of merge, from other.items[i] on
MergeItems(self, other, directives, i) ==
    IF i > Len(other)
    THEN [ok |-> TRUE, items |-> self]
    ELSE LET idx == FindItem(self, other[i][1])
         IN  IF idx = 0
             THEN [ok |-> FALSE, items |-> self]
             ELSE LET r == MergeFields(self[idx][2], other[i][2], directives, 1)
                      s2 == [self EXCEPT ![idx] = <<self[idx][1], r.fields>>]
                  IN  IF r.ok
                      THEN MergeItems(s2, other, directives, i + 1)
                      ELSE [ok |-> FALSE, items |-> s2]

merge(self, other, directives) == MergeItems(self, other, directives, 1)

\* the loop of push, from self.items[i] on
PushItems(self, new_field, i) ==
    IF i > Len(self)
    THEN [ok |-> TRUE, items |-> self]
    ELSE LET r == merge_field(self[i][2], new_field)
             s2 == [self EXCEPT ![i] = <<self[i][1], r.fields>>]
         IN  IF r.ok
             THEN PushItems(s2, new_field, i + 1)
             ELSE [ok |-> FALSE, items |-> s2]

push(self, new_field) == PushItems(self, new_field, 1)

PushFieldsFrom(self, fields, j) ==
    IF j > Len(fields)
    THEN [ok |-> TRUE, items |-> self]
    ELSE LET r == push(self, fields[j])
         IN  IF r.ok THEN PushFieldsFrom(r.items, fields, j + 1) ELSE r

push_fields(self, fields) == PushFieldsFrom(self, fields, 1)

(***************************************************************************)
(* The number of fields of a selection set, nested ones included           *)
(***************************************************************************)
SumSeq(q) == IF q = <<>> THEN 0 ELSE q[1] + SumSeq(Tail(q))

Size(items) ==
    SumSeq([i \in 1..Len(items) |->
              Len(items[i][2])
              + SumSeq([k \in 1..Len(items[i][2]) |->
                          Size(items[i][2][k].selection_set)])])

(***************************************************************************)
(* The arguments the query builder passes: fields and selection sets that  *)
(* are themselves built with new and push.                                 *)
(***************************************************************************)
WithSet(header, selection_set) == [header EXCEPT !.selection_set = selection_set]

Leaf(header) == WithSet(header, new(<<>>))

LeafFields == {Leaf(h) : h \in FieldHeaders}

CatName == push(new(<<"Cat">>), Leaf(NameField)).items
CatAlias == push(new(<<"Cat">>), Leaf(AliasField)).items
CatDogMeow == push(new(<<"Cat", "Dog">>), Leaf(MeowField)).items

InteriorFields ==
    {WithSet(NameField, new(<<"Cat">>)), WithSet(NameField, CatName),
     WithSet(AliasField, CatAlias), WithSet(NameField, CatDogMeow)}

InputFields == LeafFields \cup InteriorFields

OtherSets ==
    {new(t) : t \in OtherTypeLists}
    \cup {push(new(<<"Cat">>), f).items : f \in InputFields}
    \cup {push(new(<<"Cat", "Dog">>), f).items : f \in LeafFields}

DirectiveLists == {<<>>, <<SkipTrue, IncludeFalse>>}

(***************************************************************************)
(* The builder of a query plan.  `plan` is the selection set under         *)
(* construction, `outcome` tells whether a call has panicked, and `last`   *)
(* records the call that produced the current state: its name, `self` as   *)
(* it was on entry, and its arguments.                                     *)
(***************************************************************************)
Call(op, pre, types, fields, other, directives) ==
    [op |-> op, pre |-> pre, types |-> types, fields |-> fields,
     other |-> other, directives |-> directives]

Finish(r, call) ==
    /\ Size(r.items) <= MaxFields
    /\ plan' = r.items
    /\ outcome' = IF r.ok THEN "ok" ELSE "abort"
    /\ last' = call
    /\ UNCHANGED <<dirVars, setVars, resVars>>

New(types) ==
    /\ outcome = "ok"
    /\ Finish([ok |-> TRUE, items |-> new(types)],
              Call("new", plan, types, <<>>, <<>>, <<>>))

EmptyFrom(other) ==
    /\ outcome = "ok"
    /\ Finish([ok |-> TRUE, items |-> empty_from(other)],
              Call("empty_from", plan, <<>>, <<>>, other, <<>>))

Push(new_field) ==
    /\ outcome = "ok"
    /\ Finish(push(plan, new_field),
              Call("push", plan, <<>>, <<new_field>>, <<>>, <<>>))

PushFields(fields) ==
    /\ outcome = "ok"
    /\ Finish(push_fields(plan, fields),
              Call("push_fields", plan, <<>>, fields, <<>>, <<>>))

Merge(other, directives) ==
    /\ outcome = "ok"
    /\ Finish(merge(plan, other, directives),
              Call("merge", plan, <<>>, <<>>, other, directives))

\* merge with `other` a clone of self
MergeCopy(directives) ==
    /\ outcome = "ok"
    /\ Finish(merge(plan, plan, directives),
              Call("merge_copy", plan, <<>>, <<>>, plan, directives))

Idle(call) == Call(call, <<>>, <<>>, <<>>, <<>>, <<>>)

SelIdle == plan = <<>> /\ outcome = "ok" /\ last = Idle("idle")
DirIdle == directive = Directive(0, "", <<>>) /\ skipped = <<>>
SetIdle == type_set = [tag |-> "Any", set |-> {}] /\ narrowed = [op |-> "idle"]
ResIdle == schema = [types |-> <<>>, implementors |-> <<>>] /\ resolved = [name |-> ""]

Init ==
    /\ plan \in {new(types) : types \in TypeLists}
    /\ outcome = "ok"
    /\ last = Idle("init")
    /\ DirIdle /\ SetIdle /\ ResIdle

Next ==
    \/ \E types \in TypeLists : New(types)
    \/ \E other \in OtherSets \cup {plan} : EmptyFrom(other)
    \/ \E f \in InputFields : Push(f)
    \/ \E f1 \in LeafFields : PushFields(<<f1, Leaf(MeowField)>>)
    \/ \E other \in OtherSets, ds \in DirectiveLists : Merge(other, ds)
    \/ \E ds \in DirectiveLists : MergeCopy(ds)

Spec == Init /\ [][Next]_vars

(***************************************************************************)
(* Properties of SelectionSet                                              *)
(***************************************************************************)
RECURSIVE UniqueKeys(_)
RECURSIVE ShapeKept(_, _)
RECURSIVE DeepCounts(_)

ItemNames(items) == [i \in 1..Len(items) |-> items[i][1]]

NameSet(items) == {items[i][1] : i \in 1..Len(items)}

Mutating == {"push", "push_fields", "merge", "merge_copy"}

\* the response key as the documentation states it: the alias if there is
\* one, else the name
KeyOf(field) == IF Len(field.alias) = 1 THEN field.alias[1] ELSE field.name

UniqueKeys(items) ==
    \A i \in 1..Len(items) :
        /\ \A k1, k2 \in 1..Len(items[i][2]) :
             k1 # k2 => KeyOf(items[i][2][k1]) # KeyOf(items[i][2][k2])
        /\ \A k \in 1..Len(items[i][2]) : UniqueKeys(items[i][2][k].selection_set)

\* `after` has the type names of `before`, in the same order, and so has the
\* nested selection set of every field that `before` holds
ShapeKept(before, after) ==
    /\ ItemNames(after) = ItemNames(before)
    /\ \A i \in 1..Len(before) :
         /\ Len(before[i][2]) <= Len(after[i][2])
         /\ \A k \in 1..Len(before[i][2]) :
              ShapeKept(before[i][2][k].selection_set,
                        after[i][2][k].selection_set)

\* the number of fields of every bucket, at every nesting level
DeepCounts(items) ==
    [i \in 1..Len(items) |->
       <<Len(items[i][2]),
         [k \in 1..Len(items[i][2]) |-> DeepCounts(items[i][2][k].selection_set)]>>]

\* C1: after any sequence of push, push_fields and merge calls that did not
\* abort, no bucket holds two fields with the same response key, at any
\* nesting level.
C1_ResponseKeysUnique == outcome = "ok" => UniqueKeys(plan)

\* a merge met a field that was already in a bucket of two fields and
\* merged the nested selection sets
C1_Witness ==
    /\ outcome = "ok"
    /\ last.op = "merge"
    /\ \E i \in 1..Len(plan) :
         /\ Len(plan[i][2]) >= 2
         /\ \E k \in 1..Len(last.pre[i][2]) :
              plan[i][2][k].selection_set # last.pre[i][2][k].selection_set

\* C2: the type names of a selection set are those given to new or those of
\* the argument of empty_from, both with empty buckets, and no push,
\* push_fields or merge, aborting or not, changes them at any nesting level.
C2_TypeNamesFixed ==
    /\ last.op \in Mutating => ShapeKept(last.pre, plan)
    /\ last.op = "new" => ItemNames(plan) = last.types /\ is_empty(plan)
    /\ last.op = "empty_from" =>
         ItemNames(plan) = ItemNames(last.other) /\ is_empty(plan)

\* a merge that changed a bucket and then aborted
C2_Witness ==
    /\ last.op = "merge"
    /\ outcome = "abort"
    /\ plan # last.pre
    /\ ~(NameSet(last.other) \subseteq NameSet(last.pre))

DupFree(q) == \A i, j \in 1..Len(q) : i # j => q[i] # q[j]

AllBucketsAre(items, fields) ==
    /\ Len(items) >= 1
    /\ \A i \in 1..Len(items) : items[i][2] = fields

\* C3: pushing f into a fresh selection set over distinct types T puts [f]
\* into every bucket; merging then a selection set over some of these types
\* whose buckets hold [g], g with another response key, leaves [f, g] in the
\* buckets the source names and [f] in the others (g carries the directives
\* of the call ahead of its own).
C3_PushThenMerge ==
    /\ (last.op = "push" /\ is_empty(last.pre) /\ Len(last.pre) >= 1) =>
         outcome = "ok" /\ AllBucketsAre(plan, last.fields)
    /\ (/\ last.op = "merge"
        /\ DupFree(ItemNames(last.pre))
        /\ Len(last.pre) >= 1
        /\ Len(last.other) >= 1
        /\ Len(last.pre[1][2]) = 1
        /\ Len(last.other[1][2]) = 1
        /\ AllBucketsAre(last.pre, <<last.pre[1][2][1]>>)
        /\ AllBucketsAre(last.other, <<last.other[1][2][1]>>)
        /\ NameSet(last.other) \subseteq NameSet(last.pre)
        /\ KeyOf(last.pre[1][2][1]) # KeyOf(last.other[1][2][1])) =>
         LET f == last.pre[1][2][1]
             g == last.other[1][2][1]
             gd == [g EXCEPT !.directives = last.directives \o g.directives]
         IN  /\ outcome = "ok"
             /\ Len(plan) = Len(last.pre)
             /\ \A i \in 1..Len(plan) :
                  plan[i] = <<last.pre[i][1],
                              IF last.pre[i][1] \in NameSet(last.other)
                              THEN <<f, gd>> ELSE <<f>> >>

\* T = {Cat, Dog}, S = {Cat}, f = name, g = meow
C3_Witness ==
    /\ last.op = "merge"
    /\ last.directives = <<>>
    /\ last.pre = << <<"Cat", <<Leaf(NameField)>> >>, <<"Dog", <<Leaf(NameField)>> >> >>
    /\ plan = << <<"Cat", <<Leaf(NameField), Leaf(MeowField)>> >>,
                 <<"Dog", <<Leaf(NameField)>> >> >>

\* C4: merging an exact copy of a selection set into it, with any directive
\* list, completes and leaves the number of fields of every bucket unchanged
\* at every nesting level.
C4_MergeCopyKeepsCounts ==
    last.op = "merge_copy" =>
        outcome = "ok" /\ DeepCounts(plan) = DeepCounts(last.pre)

\* a copy with directives merged into a set with a bucket of two fields,
\* one of them with nested fields
C4_Witness ==
    /\ last.op = "merge_copy"
    /\ last.directives # <<>>
    /\ \E i \in 1..Len(plan) :
         /\ Len(plan[i][2]) >= 2
         /\ \E k \in 1..Len(plan[i][2]) : ~is_empty(plan[i][2][k].selection_set)

\* the first bucket with the given type name, 0 when there is none
BucketOf(items, name) ==
    IF \E i \in 1..Len(items) : items[i][1] = name
    THEN CHOOSE i \in 1..Len(items) :
           items[i][1] = name /\ \A j \in 1..(i - 1) : items[j][1] # name
    ELSE 0

\* the first field with the given response key, 0 when there is none
WithKey(fields, key) ==
    IF \E k \in 1..Len(fields) : KeyOf(fields[k]) = key
    THEN CHOOSE k \in 1..Len(fields) :
           KeyOf(fields[k]) = key /\ \A j \in 1..(k - 1) : KeyOf(fields[j]) # key
    ELSE 0

\* C5: after self.merge(other, D), for every field f of every bucket of
\* other, the field with f's response key in the bucket of self for that
\* type carries D followed by that field's earlier directives.
C5_DirectivesPrepended ==
    (last.op \in {"merge", "merge_copy"} /\ outcome = "ok") =>
        \A j \in 1..Len(last.other) :
            \A m \in 1..Len(last.other[j][2]) :
                LET f == last.other[j][2][m]
                    i == BucketOf(plan, last.other[j][1])
                    k == WithKey(plan[i][2], KeyOf(f))
                    kpre == WithKey(last.pre[i][2], KeyOf(f))
                    earlier == IF kpre # 0
                               THEN last.pre[i][2][kpre].directives
                               ELSE f.directives
                IN  /\ k # 0
                    /\ plan[i][2][k].directives = last.directives \o earlier

\* C6: a merge whose source names a type that self does not have aborts,
\* and so does a push or a merge that brings a field onto a field with the
\* same response key whose nested selection set lacks a type of the
\* incoming nested selection set.
C6_MergeOutsideTypesAborts ==
    /\ (/\ last.op \in {"merge", "merge_copy"}
        /\ ~(NameSet(last.other) \subseteq NameSet(last.pre))) =>
         outcome = "abort"
    /\ (/\ last.op = "push"
        /\ \E i \in 1..Len(last.pre) :
             LET k == WithKey(last.pre[i][2], KeyOf(last.fields[1]))
             IN  /\ k # 0
                 /\ ~(NameSet(last.fields[1].selection_set)
                        \subseteq NameSet(last.pre[i][2][k].selection_set))) =>
         outcome = "abort"
    /\ (/\ last.op \in {"merge", "merge_copy"}
        /\ \E j \in 1..Len(last.other) :
             \E m \in 1..Len(last.other[j][2]) :
                LET i == BucketOf(last.pre, last.other[j][1])
                    k == IF i = 0 THEN 0
                         ELSE WithKey(last.pre[i][2], KeyOf(last.other[j][2][m]))
                IN  /\ k # 0
                    /\ ~(NameSet(last.other[j][2][m].selection_set)
                           \subseteq NameSet(last.pre[i][2][k].selection_set))) =>
         outcome = "abort"

\* a push onto a field whose nested selection set lacks a type of the
\* pushed field's nested selection set
C6_Witness ==
    /\ last.op = "push"
    /\ outcome = "abort"
    /\ \E i \in 1..Len(last.pre) :
         WithKey(last.pre[i][2], KeyOf(last.fields[1])) # 0

SameButSet(a, b) ==
    /\ a.position = b.position
    /\ a.alias = b.alias
    /\ a.name = b.name
    /\ a.arguments = b.arguments
    /\ a.directives = b.directives

Values == {"Boolean(true)", "Boolean(false)", "String(true)"}
ArgumentNames == {"if", "first"}
DirectiveNames == {"include", "skip", "deprecated"}

Directives ==
    {Directive(1, n, a) :
       n \in DirectiveNames, a \in SeqsUpTo(ArgumentNames \X Values, MaxArgs)}

argument_value(d, name) ==
    LET S == {i \in 1..Len(d.arguments) : d.arguments[i][1] = name}
    IN  IF S = {} THEN <<>> ELSE <<d.arguments[Min(S)][2]>>

\* a slip: a missing `if` counts as false
eval_if_MissingFalse(d) ==
    LET v == argument_value(d, "if")
    IN  IF v = <<>> THEN FALSE
        ELSE IF v[1] = "Boolean(true)" THEN TRUE
        ELSE FALSE

eval_if(d) ==
    LET v == argument_value(d, "if")
    IN  IF v = <<>> THEN TRUE
        ELSE IF v[1] = "Boolean(true)" THEN TRUE
        ELSE IF v[1] = "Boolean(false)" THEN FALSE
        ELSE FALSE

skip(d) ==
    CASE d.name = "include" -> ~eval_if(d)
      [] d.name = "skip" -> eval_if(d)
      [] OTHER -> FALSE

\* the executor meets the next directive
Construct(d) ==
    /\ skipped # <<>>
    /\ directive' = d
    /\ skipped' = <<>>
    /\ UNCHANGED <<selVars, setVars, resVars>>

\* and asks it whether its field is to be left out
Skip ==
    /\ skipped = <<>>
    /\ skipped' = <<skip(directive)>>
    /\ UNCHANGED <<directive, selVars, setVars, resVars>>

DirInit ==
    /\ directive \in Directives
    /\ skipped = <<>>
    /\ SelIdle /\ SetIdle /\ ResIdle

DirNext ==
    \/ \E d \in Directives : Construct(d)
    \/ Skip

DirSpec == DirInit /\ [][DirNext]_vars

\* the arguments named `if`, and the value of the condition as documented:
\* true when there is none, else what the first one says, a value that is
\* no boolean counting as false
IfPositions == {i \in 1..Len(directive.arguments) : directive.arguments[i][1] = "if"}

IfHolds ==
    \/ IfPositions = {}
    \/ \E i \in IfPositions :
         /\ \A j \in IfPositions : i <= j
         /\ directive.arguments[i][2] = "Boolean(true)"

\* C8: skip() is true exactly for `include` with a false condition and for
\* `skip` with a true condition, and false for every other directive.
C8_SkipSemantics ==
    skipped # <<>> =>
        skipped[1] <=>
             \/ directive.name = "include" /\ ~IfHolds
             \/ directive.name = "skip" /\ IfHolds

\* @skip without an `if` argument is skipped
C8_Witness ==
    /\ skipped = <<TRUE>>
    /\ directive.name = "skip"
    /\ IfPositions = {}

(***************************************************************************)
(* ObjectTypeSet                                                           *)
(*                                                                         *)
(* Any (here AnyTypes) and Only(set) are records with a tag.               *)
(***************************************************************************)
ObjectNames == {"Cat", "Dog", "Bird"}

AnyTypes == [tag |-> "Any", set |-> {}]
Only(set) == [tag |-> "Only", set |-> set]

ObjectTypeSets == {AnyTypes} \cup {Only(S) : S \in SUBSET ObjectNames}

matches_name(ots, name) ==
    IF ots.tag = "Any" THEN TRUE ELSE name \in ots.set

\* a slip: an unconstrained set stays unconstrained
intersect_AnyStays(ots, other) ==
    IF ots.tag = "Any" THEN AnyTypes
    ELSE Only({ty \in ots.set : matches_name(other, ty)})

intersect(ots, other) ==
    IF ots.tag = "Any" THEN other
    ELSE Only({ty \in ots.set : matches_name(other, ty)})

Narrowing(op, pre, other) == [op |-> op, pre |-> pre, other |-> other]

\* ObjectTypeSet::convert: Any without a type condition, else Only(..)
Convert(ots) ==
    /\ type_set' = ots
    /\ narrowed' = Narrowing("convert", type_set, ots)
    /\ UNCHANGED <<selVars, dirVars, resVars>>

\* the type set in force is narrowed by that of a fragment
Intersect(other) ==
    /\ type_set' = intersect(type_set, other)
    /\ narrowed' = Narrowing("intersect", type_set, other)
    /\ UNCHANGED <<selVars, dirVars, resVars>>

SetInit ==
    /\ type_set \in ObjectTypeSets
    /\ narrowed = Narrowing("init", AnyTypes, AnyTypes)
    /\ SelIdle /\ DirIdle /\ ResIdle

SetNext ==
    \/ \E ots \in ObjectTypeSets : Convert(ots)
    \/ \E other \in ObjectTypeSets : Intersect(other)

SetSpec == SetInit /\ [][SetNext]_vars

\* the object types of the schema that a type set matches
Matched(ots) == {name \in ObjectNames : matches_name(ots, name)}

\* C9: intersect is set intersection with Any as the identity; the matched
\* types never grow and an Only never turns into Any.
C9_IntersectNarrows ==
    narrowed.op = "intersect" =>
        /\ narrowed.other.tag = "Any" => type_set = narrowed.pre
        /\ narrowed.pre.tag = "Any" => type_set = narrowed.other
        /\ (narrowed.pre.tag = "Only" /\ narrowed.other.tag = "Only") =>
             /\ type_set.tag = "Only"
             /\ type_set.set = narrowed.pre.set \cap narrowed.other.set
             /\ Cardinality(type_set.set) <= Cardinality(narrowed.pre.set)
             /\ Cardinality(type_set.set) <= Cardinality(narrowed.other.set)
        /\ Matched(type_set) \subseteq Matched(narrowed.pre)
        /\ narrowed.pre.tag = "Only" => type_set.tag = "Only"

\* Only({Cat, Dog}) narrowed by Only({Dog, Bird})
C9_Witness ==
    /\ narrowed.op = "intersect"
    /\ narrowed.pre = Only({"Cat", "Dog"})
    /\ narrowed.other = Only({"Dog", "Bird"})
    /\ type_set = Only({"Dog"})

(***************************************************************************)
(* resolve_object_types                                                    *)
(*                                                                         *)
(* A schema is its table of named types (each with its kind and, for a     *)
(* union, its members) and its table of the object types that implement    *)
(* each interface.  A Result is a record tagged Ok or Err; Overflow is     *)
(* the recursion that never returns.                                       *)
(***************************************************************************)
RECURSIVE Resolve(_, _, _)
RECURSIVE ResolveMembers(_, _, _, _, _)

TypeDefinition(kind, types) == [kind |-> kind, types |-> types]

PetMembers == {"Cat", "Animal", "String", "Ghost"}
AnimalMembers == {"Pet", "Dog", "Node"}
NodeImplementors == {{"Cat"}, {"Cat", "Dog"}}

\* "Ghost" is a name that no schema defines
QueryNames ==
    {"Cat", "Dog", "Node", "Pet", "Animal", "String", "Color", "Filter", "Ghost"}

SchemaOf(pet, animal, impl) ==
    [types |->
       [n \in QueryNames \ {"Ghost"} |->
          CASE n \in {"Cat", "Dog"} -> TypeDefinition("Object", <<>>)
            [] n = "Node" -> TypeDefinition("Interface", <<>>)
            [] n = "Pet" -> TypeDefinition("Union", pet)
            [] n = "Animal" -> TypeDefinition("Union", animal)
            [] n = "String" -> TypeDefinition("Scalar", <<>>)
            [] n = "Color" -> TypeDefinition("Enum", <<>>)
            [] n = "Filter" -> TypeDefinition("InputObject", <<>>)],
     implementors |-> [n \in {"Node"} |-> impl]]

Schemas ==
    {SchemaOf(pet, animal, impl) :
       pet \in SeqsUpTo(PetMembers, MaxMembers),
       animal \in SeqsUpTo(AnimalMembers, MaxMembers),
       impl \in NodeImplementors}

Ok(set) == [tag |-> "Ok", set |-> set, error |-> "", name |-> ""]
Err(error, name) == [tag |-> "Err", set |-> {}, error |-> error, name |-> name]
Overflow == [tag |-> "Overflow", set |-> {}, error |-> "", name |-> ""]

get_named_type(sch, name) ==
    IF name \in DOMAIN sch.types THEN <<sch.types[name]>> ELSE <<>>

types_for_interface(sch) == sch.implementors

\* a slip: an interface resolves to itself
Resolve_InterfaceItself(sch, name, calling) ==
    IF name \in calling THEN Overflow
    ELSE LET def == get_named_type(sch, name)
         IN  IF def = <<>> THEN Err("AbstractTypeError", name)
             ELSE CASE def[1].kind = "Interface" -> Ok({name})
                    [] def[1].kind = "Union" ->
                         ResolveMembers(sch, def[1].types, 1, {}, calling \cup {name})
                    [] def[1].kind = "Object" -> Ok({name})
                    [] OTHER -> Err("NamedTypeError", name)

\* `calling` holds the names whose resolution is under way: a call for one
\* of them calls itself again without end
Resolve(sch, name, calling) ==
    IF name \in calling THEN Overflow
    ELSE LET def == get_named_type(sch, name)
         IN  IF def = <<>> THEN Err("AbstractTypeError", name)
             ELSE CASE def[1].kind = "Interface" ->
                         Ok(types_for_interface(sch)[name])
                    [] def[1].kind = "Union" ->
                         ResolveMembers(sch, def[1].types, 1, {}, calling \cup {name})
                    [] def[1].kind = "Object" -> Ok({name})
                    [] OTHER -> Err("NamedTypeError", name)

\* the loop over the members of a union, from tys[i] on
ResolveMembers(sch, tys, i, set, calling) ==
    IF i > Len(tys) THEN Ok(set)
    ELSE LET r == Resolve(sch, tys[i], calling)
         IN  IF r.tag = "Ok"
             THEN ResolveMembers(sch, tys, i + 1, set \cup r.set, calling)
             ELSE r

resolve_object_types(sch, name) == Resolve(sch, name, {})

ResolveObjectTypes(name) ==
    /\ resolved' = [name |-> name, result |-> resolve_object_types(schema, name)]
    /\ UNCHANGED <<schema, selVars, dirVars, setVars>>

ResInit ==
    /\ schema \in Schemas
    /\ resolved = [name |-> ""]
    /\ SelIdle /\ DirIdle /\ SetIdle

ResNext == \E name \in QueryNames : ResolveObjectTypes(name)

ResSpec == ResInit /\ [][ResNext]_vars

(***************************************************************************)
(* What a name denotes, told from the tables of the schema alone           *)
(***************************************************************************)
RECURSIVE Closure(_, _)

KindOf(n) == IF n \in DOMAIN schema.types THEN schema.types[n].kind ELSE "Unknown"

MembersOf(n) ==
    IF KindOf(n) = "Union"
    THEN {schema.types[n].types[i] : i \in 1..Len(schema.types[n].types)}
    ELSE {}

\* the names reached from S through union membership
Closure(S, rounds) ==
    IF rounds = 0 THEN S
    ELSE Closure(S \cup UNION {MembersOf(n) : n \in S}, rounds - 1)

Reach(n) == Closure({n}, Cardinality(QueryNames))

Acyclic(n) ==
    \A u \in Reach(n) : u \notin Closure(MembersOf(u), Cardinality(QueryNames))

Denoted(n) ==
    UNION {CASE KindOf(m) = "Object" -> {m}
             [] KindOf(m) = "Interface" -> schema.implementors[m]
             [] OTHER -> {} : m \in Reach(n)}

Resolvable(n) == \A m \in Reach(n) : KindOf(m) \in {"Object", "Interface", "Union"}

\* C7: resolve_object_types returns the object types a name denotes: itself
\* for an object type, the implementors for an interface, the union of the
\* resolved members for a union; it fails with AbstractTypeError for a name
\* the schema lacks, with NamedTypeError for a scalar, enum or input object,
\* and it returns whenever no union is a member of itself.
C7_ResolveObjectTypes ==
    resolved.name # "" =>
        LET n == resolved.name
            r == resolved.result
        IN  /\ Acyclic(n) => r.tag # "Overflow"
            /\ r.tag = "Ok" =>
                 /\ Resolvable(n)
                 /\ r.set = Denoted(n)
                 /\ \A m \in r.set : KindOf(m) = "Object"
            /\ (Acyclic(n) /\ Resolvable(n)) => r.tag = "Ok"
            /\ KindOf(n) = "Object" => r = Ok({n})
            /\ KindOf(n) = "Interface" => r = Ok(schema.implementors[n])
            /\ (KindOf(n) = "Union" /\ r.tag = "Ok") =>
                 /\ \A m \in MembersOf(n) : resolve_object_types(schema, m).tag = "Ok"
                 /\ r.set = UNION {resolve_object_types(schema, m).set : m \in MembersOf(n)}
            /\ KindOf(n) = "Unknown" => r = Err("AbstractTypeError", n)
            /\ KindOf(n) \in {"Scalar", "Enum", "InputObject"} =>
                 r = Err("NamedTypeError", n)
            /\ (r.tag = "Err" /\ r.error = "AbstractTypeError") =>
                 r.name \in Reach(n) /\ KindOf(r.name) = "Unknown"
            /\ (r.tag = "Err" /\ r.error = "NamedTypeError") =>
                 /\ r.name \in Reach(n)
                 /\ KindOf(r.name) \in {"Scalar", "Enum", "InputObject"}
            /\ r.tag = "Err" => r.error \in {"AbstractTypeError", "NamedTypeError"}

\* a union of a union and an interface resolved to two object types
C7_Witness ==
    /\ resolved.name = "Animal"
    /\ MembersOf("Animal") = {"Pet", "Node"}
    /\ MembersOf("Pet") = {"Cat"}
    /\ resolved.result = Ok({"Cat", "Dog"})

====
